---- MODULE Spec2Model ----
(***************************************************************************)
(* remembrall (rmbrl): a command-line memory tracker over one SQLite       *)
(* table.  The model follows src/src/remembrall.c: main() parses argv into *)
(* an Rmbrl_Command, opens the store, ensures the schema, dispatches to    *)
(* rmbrl_command_add / _peek / _clear and closes the session.              *)
(*                                                                         *)
(* C strings are sequences of one-character strings; the terminator is not *)
(* stored, so strlen(s) = Len(s) and s[k] in C is s[k+1] here.             *)
(***************************************************************************)
EXTENDS Integers, Sequences, FiniteSets, TLC

VARIABLES
    rows,       \* persisted rows of table memories (the database file)
    seq,        \* sqlite_sequence: largest id AUTOINCREMENT ever handed out
    clock,      \* CURRENT_TIMESTAMP of the store, in seconds
    pc,         \* "idle": no process; "exited": main() has returned
    args,       \* argv[1..argc-1] of the invocation
    cmd,        \* the Rmbrl_Command main() built (NoCmd before the scan)
    ignored,    \* ignored_flags.items, in order
    perr,       \* which early return of main() ended the run ("none" if none)
    oob,        \* the scan read a token beyond its terminator
    warned,     \* the "Ignoring flags" warning was printed
    exit,       \* the value main() returned
    opens,      \* calls of sqlite3_open
    closes,     \* calls of sqlite3_close
    log,        \* SQL statements handed to the store, in order
    failed,     \* the calls that failed in this run
    shown,      \* rows printed by peek, in the order printed
    forgotten,  \* rows returned by DELETE ... RETURNING
    pre,        \* rows persisted when the process started
    prev        \* row persisted by the invocation just before this one

vars == <<rows, seq, clock, pc, args, cmd, ignored, perr, oob, warned, exit,
          opens, closes, log, failed, shown, forgotten, pre, prev>>

---------------------------------------------------------------------------
(* Bounds of the model *)

MaxSeq == 2         \* inserts ever performed (ids handed out)
MaxTime == 1        \* seconds the store's clock advances
MaxArgs == 3        \* tokens after the command in the parser specification

(* Program constants *)

TaskLimit == 256
ProjectLimit == 256
ProjectFlagLen == 9
ShortFlagLen == 2

---------------------------------------------------------------------------
(* Strings *)

NULL == <<"NULL">>                  \* a null char*: no C string equals it
Fill(n) == [k \in 1..n |-> "z"]     \* a string of n bytes

s_add == <<"a","d","d">>
s_peek == <<"p","e","e","k">>
s_clear == <<"c","l","e","a","r">>
s_help == <<"-","-","h","e","l","p">>
s_h == <<"-","h">>
s_version == <<"-","-","v","e","r","s","i","o","n">>
s_V == <<"-","V">>
s_all == <<"-","-","a","l","l">>
s_a == <<"-","a">>
s_dry_run == <<"-","-","d","r","y","-","r","u","n">>
s_n == <<"-","n">>
s_verbose == <<"-","-","v","e","r","b","o","s","e">>
s_v == <<"-","v">>
s_silent == <<"-","-","s","i","l","e","n","t">>
s_s == <<"-","s">>
s_p == <<"-","p">>
s_project == <<"-","-","p","r","o","j","e","c","t">>

\* strncmp(s, prefix, Len(prefix)) == 0
strncmp0(s, prefix) ==
    /\ Len(s) >= Len(prefix)
    /\ SubSeq(s, 1, Len(prefix)) = prefix

\* s + k: the string that starts k bytes into s (k <= strlen(s))
Suffix(s, k) == SubSeq(s, k + 1, Len(s))

\* s[0] != '-'  (s[0] is the terminator when s is empty)
NotDashed(s) == Len(s) = 0 \/ s[1] # "-"

---------------------------------------------------------------------------
(* Rmbrl_Command *)

RMBRL_CMD_UNKNOWN == "?"
RMBRL_CMD_ADD == "add"
RMBRL_CMD_PEEK == "peek"
RMBRL_CMD_CLEAR == "clear"

RMBRL_VERB_NORMAL == "normal"
RMBRL_VERB_SILENT == "silent"
RMBRL_VERB_VERBOSE == "verbose"

\* Rmbrl_Command cmd = {0};
ZeroCmd ==
    [function |-> RMBRL_CMD_UNKNOWN, verbosity |-> RMBRL_VERB_NORMAL,
     project |-> NULL, task |-> NULL, all |-> FALSE, dry_run |-> FALSE]

NoCmd == ZeroCmd

\* the strcmp chain on argv[1]
CommandFunction(tok) ==
    IF tok = s_add THEN RMBRL_CMD_ADD
    ELSE IF tok = s_peek THEN RMBRL_CMD_PEEK
    ELSE IF tok = s_clear THEN RMBRL_CMD_CLEAR
    ELSE RMBRL_CMD_UNKNOWN

---------------------------------------------------------------------------
(* main(): the scan of argv[2..argc-1] *)

\* What the bytes behind a token's terminator can hold when the scan reads
\* argv[i][9] of a token shorter than 9 bytes and finds '=' there: the
\* string at argv[i] + 10.
Garbage == {<< >>, <<"x">>}

ScanResult(err, c, ign, o) ==
    [err |-> err, cmd |-> c, ignored |-> ign, oob |-> o]

RECURSIVE Scan(_, _, _, _, _)

\* "--project name": ++i, then the bounds check and the '-' check
NextTokenForm(a, i, c, ign, o) ==
    IF i + 1 <= Len(a) /\ NotDashed(a[i + 1])
    THEN Scan(a, i + 2, [c EXCEPT !.project = a[i + 1]], ign, o)
    ELSE {ScanResult("missing_project", c, ign, o)}

\* the body of the if on strncmp(argv[i], "-p", 2) / strncmp(.., "--project", 9)
ProjectFlag(a, i, c, ign, o) ==
    LET tok == a[i] IN
    IF Len(tok) > ShortFlagLen /\ tok[ShortFlagLen + 1] = "="
    THEN Scan(a, i + 1, [c EXCEPT !.project = Suffix(tok, ShortFlagLen + 1)], ign, o)
    ELSE IF Len(tok) > ProjectFlagLen /\ tok[ProjectFlagLen + 1] = "="
    THEN Scan(a, i + 1, [c EXCEPT !.project = Suffix(tok, ProjectFlagLen + 1)], ign, o)
    ELSE IF Len(tok) >= ProjectFlagLen
    THEN NextTokenForm(a, i, c, ign, o)
    ELSE \* argv[i][9] lies behind the terminator: either outcome of the read
         NextTokenForm(a, i, c, ign, TRUE)
           \cup UNION {Scan(a, i + 1, [c EXCEPT !.project = g], ign, TRUE) : g \in Garbage}

\* a scan that accepts --all for add as well
Scan_all_for_add(a, i, c, ign, o) ==
    IF i > Len(a) THEN {ScanResult("none", c, ign, o)}
    ELSE LET tok == a[i] IN
      IF tok = s_all \/ tok = s_a
      THEN Scan(a, i + 1, [c EXCEPT !.all = TRUE], ign, o)
      ELSE IF tok = s_dry_run \/ tok = s_n
      THEN Scan(a, i + 1, [c EXCEPT !.dry_run = TRUE], ign, o)
      ELSE IF tok = s_verbose \/ tok = s_v
      THEN Scan(a, i + 1, [c EXCEPT !.verbosity = RMBRL_VERB_VERBOSE], ign, o)
      ELSE IF tok = s_silent \/ tok = s_s
      THEN Scan(a, i + 1, [c EXCEPT !.verbosity = RMBRL_VERB_SILENT], ign, o)
      ELSE IF strncmp0(tok, s_p) \/ strncmp0(tok, s_project)
      THEN ProjectFlag(a, i, c, ign, o)
      ELSE IF c.function = RMBRL_CMD_ADD /\ c.task = NULL /\ NotDashed(tok)
      THEN Scan(a, i + 1, [c EXCEPT !.task = tok], ign, o)
      ELSE Scan(a, i + 1, c, Append(ign, tok), o)

\* a scan in which --silent does not undo an earlier --verbose
Scan_verbose_sticks(a, i, c, ign, o) ==
    IF i > Len(a) THEN {ScanResult("none", c, ign, o)}
    ELSE LET tok == a[i] IN
      IF (tok = s_all \/ tok = s_a) /\ c.function # RMBRL_CMD_ADD
      THEN Scan(a, i + 1, [c EXCEPT !.all = TRUE], ign, o)
      ELSE IF tok = s_dry_run \/ tok = s_n
      THEN Scan(a, i + 1, [c EXCEPT !.dry_run = TRUE], ign, o)
      ELSE IF tok = s_verbose \/ tok = s_v
      THEN Scan(a, i + 1, [c EXCEPT !.verbosity = RMBRL_VERB_VERBOSE], ign, o)
      ELSE IF tok = s_silent \/ tok = s_s
      THEN Scan(a, i + 1,
                [c EXCEPT !.verbosity = IF @ = RMBRL_VERB_VERBOSE THEN @
                                          ELSE RMBRL_VERB_SILENT], ign, o)
      ELSE IF strncmp0(tok, s_p) \/ strncmp0(tok, s_project)
      THEN ProjectFlag(a, i, c, ign, o)
      ELSE IF c.function = RMBRL_CMD_ADD /\ c.task = NULL /\ NotDashed(tok)
      THEN Scan(a, i + 1, [c EXCEPT !.task = tok], ign, o)
      ELSE Scan(a, i + 1, c, Append(ign, tok), o)

\* a scan in which every word of add replaces the task
Scan_last_word_wins(a, i, c, ign, o) ==
    IF i > Len(a) THEN {ScanResult("none", c, ign, o)}
    ELSE LET tok == a[i] IN
      IF (tok = s_all \/ tok = s_a) /\ c.function # RMBRL_CMD_ADD
      THEN Scan(a, i + 1, [c EXCEPT !.all = TRUE], ign, o)
      ELSE IF tok = s_dry_run \/ tok = s_n
      THEN Scan(a, i + 1, [c EXCEPT !.dry_run = TRUE], ign, o)
      ELSE IF tok = s_verbose \/ tok = s_v
      THEN Scan(a, i + 1, [c EXCEPT !.verbosity = RMBRL_VERB_VERBOSE], ign, o)
      ELSE IF tok = s_silent \/ tok = s_s
      THEN Scan(a, i + 1, [c EXCEPT !.verbosity = RMBRL_VERB_SILENT], ign, o)
      ELSE IF strncmp0(tok, s_p) \/ strncmp0(tok, s_project)
      THEN ProjectFlag(a, i, c, ign, o)
      ELSE IF c.function = RMBRL_CMD_ADD /\ NotDashed(tok)
      THEN Scan(a, i + 1, [c EXCEPT !.task = tok], ign, o)
      ELSE Scan(a, i + 1, c, Append(ign, tok), o)

\* for (int i = 2; i < argc; ++i) { ... }, from index i on
Scan(a, i, c, ign, o) ==
    IF i > Len(a) THEN {ScanResult("none", c, ign, o)}
    ELSE LET tok == a[i] IN
      IF (tok = s_all \/ tok = s_a) /\ c.function # RMBRL_CMD_ADD
      THEN Scan(a, i + 1, [c EXCEPT !.all = TRUE], ign, o)
      ELSE IF tok = s_dry_run \/ tok = s_n
      THEN Scan(a, i + 1, [c EXCEPT !.dry_run = TRUE], ign, o)
      ELSE IF tok = s_verbose \/ tok = s_v
      THEN Scan(a, i + 1, [c EXCEPT !.verbosity = RMBRL_VERB_VERBOSE], ign, o)
      ELSE IF tok = s_silent \/ tok = s_s
      THEN Scan(a, i + 1, [c EXCEPT !.verbosity = RMBRL_VERB_SILENT], ign, o)
      ELSE IF strncmp0(tok, s_p) \/ strncmp0(tok, s_project)
      THEN ProjectFlag(a, i, c, ign, o)
      ELSE IF c.function = RMBRL_CMD_ADD /\ c.task = NULL /\ NotDashed(tok)
      THEN Scan(a, i + 1, [c EXCEPT !.task = tok], ign, o)
      ELSE Scan(a, i + 1, c, Append(ign, tok), o)

ParseResult(a, err, c, ign, o, w) ==
    [args |-> a, perr |-> err, cmd |-> c, ignored |-> ign, oob |-> o, warned |-> w]

\* main() that prints the ignored-flags warning whatever the verbosity
ParseArgs_warns_when_silent(a) ==
    IF Len(a) = 0 THEN {ParseResult(a, "no_args", ZeroCmd, << >>, FALSE, FALSE)}
    ELSE IF a[1] = s_help \/ a[1] = s_h
    THEN {ParseResult(a, "help", ZeroCmd, << >>, FALSE, FALSE)}
    ELSE IF a[1] = s_version \/ a[1] = s_V
    THEN {ParseResult(a, "version", ZeroCmd, << >>, FALSE, FALSE)}
    ELSE IF CommandFunction(a[1]) = RMBRL_CMD_UNKNOWN
    THEN {ParseResult(a, "unknown_command", ZeroCmd, << >>, FALSE, FALSE)}
    ELSE
      { IF r.err # "none"
        THEN ParseResult(a, r.err, r.cmd, r.ignored, r.oob, FALSE)
        ELSE LET w == Len(r.ignored) > 0 IN
             IF r.cmd.function = RMBRL_CMD_ADD /\ r.cmd.task = NULL
             THEN ParseResult(a, "missing_task", r.cmd, r.ignored, r.oob, w)
             ELSE ParseResult(a, "none", r.cmd, r.ignored, r.oob, w)
        : r \in Scan(a, 2, [ZeroCmd EXCEPT !.function = CommandFunction(a[1])],
                     << >>, FALSE) }

\* main() up to the point where it resolves the database path: the results
\* the scan of a can have.  perr names the early return taken, "none" if the
\* run goes on to the store.
ParseArgs(a) ==
    IF Len(a) = 0 THEN {ParseResult(a, "no_args", ZeroCmd, << >>, FALSE, FALSE)}
    ELSE IF a[1] = s_help \/ a[1] = s_h
    THEN {ParseResult(a, "help", ZeroCmd, << >>, FALSE, FALSE)}
    ELSE IF a[1] = s_version \/ a[1] = s_V
    THEN {ParseResult(a, "version", ZeroCmd, << >>, FALSE, FALSE)}
    ELSE IF CommandFunction(a[1]) = RMBRL_CMD_UNKNOWN
    THEN {ParseResult(a, "unknown_command", ZeroCmd, << >>, FALSE, FALSE)}
    ELSE
      { IF r.err # "none"
        THEN ParseResult(a, r.err, r.cmd, r.ignored, r.oob, FALSE)
        ELSE LET w == r.cmd.verbosity # RMBRL_VERB_SILENT /\ Len(r.ignored) > 0 IN
             IF r.cmd.function = RMBRL_CMD_ADD /\ r.cmd.task = NULL
             THEN ParseResult(a, "missing_task", r.cmd, r.ignored, r.oob, w)
             ELSE ParseResult(a, "none", r.cmd, r.ignored, r.oob, w)
        : r \in Scan(a, 2, [ZeroCmd EXCEPT !.function = CommandFunction(a[1])],
                     << >>, FALSE) }

\* main() that returns 0 after the missing-task error
ParseExit_missing_task_ok(err) ==
    IF err \in {"help", "version", "missing_task"} THEN 0 ELSE 1

\* the value main() returns on an early return
ParseExit(err) == IF err \in {"help", "version"} THEN 0 ELSE 1

---------------------------------------------------------------------------
(* The store: table memories behind one sqlite3 session *)

SQLITE_OK == "SQLITE_OK"
SQLITE_ROW == "SQLITE_ROW"
SQLITE_DONE == "SQLITE_DONE"
SQLITE_ERROR == "SQLITE_ERROR"      \* any other result code

\* exit status of a process killed by SIGSEGV
CrashStatus == 128 + 11

\* Places where the environment can make a call fail
FaultPoints ==
    {"path", "open", "schema", "begin", "prepare_select", "step_select",
     "prepare", "step", "rollback"}

\* (int) of a 64-bit rowid, as sqlite3_column_int returns it: the low 32
\* bits as a signed number.  The rowids of this model are 1..MaxSeq, far
\* below 2^31, where the low 32 bits are the rowid itself.
ToInt32(x) == x

\* A statement handed to the store: its text and what is bound to its '?'
Stmt(sql, project, id) == [sql |-> sql, project |-> project, id |-> id]

\* the session sqlite3_open returns on the file holding (r, q)
OpenSession(r, q) ==
    [rows |-> r, seq |-> q, txn |-> FALSE,
     snap |-> [rows |-> r, seq |-> q], log |-> << >>, failed |-> {}]

\* the call at fault point p has failed
Fail(db, p) == [db EXCEPT !.failed = @ \cup {p}]

\* the statement st has been handed to the store
Logged(db, st) == [db EXCEPT !.log = Append(@, st)]

\* what the file holds once the session is gone: an open transaction is
\* rolled back by sqlite3_close (or by the journal when the process died)
Persisted(db) ==
    IF db.txn THEN db.snap ELSE [rows |-> db.rows, seq |-> db.seq]

\* CREATE TABLE IF NOT EXISTS memories(...)
EnsureSchema(db, f) ==
    LET db1 == Logged(db, Stmt("CREATE TABLE", NULL, 0)) IN
    IF "schema" \in f
    THEN [result |-> SQLITE_ERROR, db |-> Fail(db1, "schema")]
    ELSE [result |-> SQLITE_OK, db |-> db1]

rmbrl_db_begin_transaction(db, f) ==
    IF "begin" \in f
    THEN [result |-> 1, db |-> Fail(Logged(db, Stmt("BEGIN", NULL, 0)), "begin")]
    ELSE [result |-> 0,
          db |-> [db EXCEPT !.txn = TRUE,
                            !.snap = [rows |-> db.rows, seq |-> db.seq],
                            !.log = Append(@, Stmt("BEGIN", NULL, 0))]]

\* ROLLBACK that makes the transaction's changes permanent instead
rmbrl_db_rollback_commits(db, f) ==
    IF "rollback" \in f \/ ~db.txn
    THEN [result |-> 1, db |-> Fail(Logged(db, Stmt("ROLLBACK", NULL, 0)), "rollback")]
    ELSE [result |-> 0,
          db |-> [db EXCEPT !.txn = FALSE,
                            !.log = Append(@, Stmt("ROLLBACK", NULL, 0))]]

\* sqlite3_exec(db, "ROLLBACK;"): an error when no transaction is open
rmbrl_db_rollback_transaction(db, f) ==
    IF "rollback" \in f \/ ~db.txn
    THEN [result |-> 1, db |-> Fail(Logged(db, Stmt("ROLLBACK", NULL, 0)), "rollback")]
    ELSE [result |-> 0,
          db |-> [db EXCEPT !.txn = FALSE,
                            !.rows = db.snap.rows,
                            !.seq = db.snap.seq,
                            !.log = Append(@, Stmt("ROLLBACK", NULL, 0))]]

\* a filter that lets every row through
Matching_unfiltered(r, project) == r

\* rows a statement filtered on project (or not filtered, project NULL) sees
Matching(r, project) ==
    IF project = NULL THEN r ELSE {m \in r : m.project = project}

\* ORDER BY created_at ASC
Orders_ascending(M) ==
    {o \in [1..Cardinality(M) -> M] :
        /\ \A i, j \in 1..Cardinality(M) : i # j => o[i] # o[j]
        /\ \A i, j \in 1..Cardinality(M) : i < j => o[i].created_at <= o[j].created_at}

\* ORDER BY created_at DESC: the orders the store may return the rows of M
\* in; rows with equal created_at come in any order
Orders(M) ==
    {o \in [1..Cardinality(M) -> M] :
        /\ \A i, j \in 1..Cardinality(M) : i # j => o[i] # o[j]
        /\ \A i, j \in 1..Cardinality(M) : i < j => o[i].created_at >= o[j].created_at}

\* an insert that binds task and project the wrong way round
InsertStep_swapped(db, task, project, f, now) ==
    IF "step" \in f
    THEN [result |-> SQLITE_ERROR,
          db |-> Fail(Logged(db, Stmt("INSERT", project, 0)), "step")]
    ELSE [result |-> SQLITE_DONE,
          db |-> [db EXCEPT
                    !.rows = @ \cup {[id |-> db.seq + 1, task |-> project,
                                      project |-> task, created_at |-> now]},
                    !.seq = @ + 1,
                    !.log = Append(@, Stmt("INSERT", project, 0))]]

\* sqlite3_step of INSERT INTO memories (task, project) VALUES (?, ?)
InsertStep(db, task, project, f, now) ==
    IF "step" \in f
    THEN [result |-> SQLITE_ERROR,
          db |-> Fail(Logged(db, Stmt("INSERT", project, 0)), "step")]
    ELSE [result |-> SQLITE_DONE,
          db |-> [db EXCEPT
                    !.rows = @ \cup {[id |-> db.seq + 1, task |-> task,
                                      project |-> project, created_at |-> now]},
                    !.seq = @ + 1,
                    !.log = Append(@, Stmt("INSERT", project, 0))]]

\* DELETE that forgets the project filter
DeleteTargets_unfiltered(db, id, project) ==
    IF id # -1 THEN {m \in db.rows : m.id = id}
    ELSE db.rows

\* the rows DELETE FROM memories [WHERE ...] RETURNING * removes
DeleteTargets(db, id, project) ==
    IF id # -1 THEN {m \in db.rows : m.id = id}
    ELSE Matching(db.rows, project)

\* what an executor hands back: its return value, the error it logged
\* ("none" if none), the session, the rows it printed
ExecResult(result, err, db, sh, fg) ==
    [result |-> result, err |-> err, db |-> db, shown |-> sh, forgotten |-> fg]

---------------------------------------------------------------------------
(* The command executors.  f is the set of fault points that fail in this  *)
(* run; the other parameters are the choices the store makes.              *)

\* the limit check off by one
TaskTooLong_at_limit(c) == Len(c.task) >= TaskLimit

\* strlen(cmd->task) > 256
TaskTooLong(c) == Len(c.task) > TaskLimit

\* no limit on the project
ProjectTooLong_never(c) == FALSE

\* cmd->project && strlen(cmd->project) > 256
ProjectTooLong(c) == c.project # NULL /\ Len(c.project) > ProjectLimit

\* now: CURRENT_TIMESTAMP at the insert
rmbrl_command_add(c, db, f, now) ==
    IF TaskTooLong(c) THEN ExecResult(1, "task_limit", db, << >>, {})
    ELSE IF ProjectTooLong(c) THEN ExecResult(1, "project_limit", db, << >>, {})
    ELSE
      LET b == IF c.dry_run THEN rmbrl_db_begin_transaction(db, f)
               ELSE [result |-> 0, db |-> db]
      IN
      IF b.result # 0 THEN ExecResult(b.result, "begin", b.db, << >>, {})
      ELSE IF "prepare" \in f
      THEN ExecResult(1, "prepare", Fail(b.db, "prepare"), << >>, {})
      ELSE
        LET s == InsertStep(b.db, c.task,
                            IF c.project # NULL THEN c.project ELSE << >>, f, now)
        IN
        IF s.result # SQLITE_DONE THEN ExecResult(1, "step", s.db, << >>, {})
        ELSE IF c.dry_run
        THEN LET r == rmbrl_db_rollback_transaction(s.db, f)
             IN ExecResult(r.result, IF r.result # 0 THEN "rollback" ELSE "none",
                           r.db, << >>, {})
        ELSE ExecResult(0, "none", s.db, << >>, {})

\* ord: the matching rows in the order the store returns them;
\* e: the call of sqlite3_step that fails (0: none does)
rmbrl_command_peek(c, db, f, ord, e) ==
    IF ProjectTooLong(c) THEN ExecResult(1, "project_limit", db, << >>, {})
    ELSE IF "prepare" \in f
    THEN ExecResult(1, "prepare", Fail(db, "prepare"), << >>, {})
    ELSE
      LET q == IF c.project # NULL
               THEN Stmt("SELECT WHERE project = ? ORDER BY created_at DESC", c.project, 0)
               ELSE Stmt("SELECT ORDER BY created_at DESC", NULL, 0)
          db1 == Logged(db, q)
          n == Len(ord)
      IN
      IF ~c.all
      THEN \* one step; a row ends the loop with result = SQLITE_DONE
           IF e = 1 THEN ExecResult(1, "step", Fail(db1, "step"), << >>, {})
           ELSE ExecResult(0, "none", db1, SubSeq(ord, 1, IF n > 0 THEN 1 ELSE 0), {})
      ELSE IF e >= 1 /\ e <= n + 1
           THEN ExecResult(1, "step", Fail(db1, "step"), SubSeq(ord, 1, e - 1), {})
           ELSE ExecResult(0, "none", db1, ord, {})

\* clear that never opens the rehearsal transaction
ClearBegin_skipped(c, db, f) == [result |-> 0, db |-> db]

\* clear that opens the transaction whether or not dry-run is set
ClearBegin_always(c, db, f) == rmbrl_db_begin_transaction(db, f)

\* if (cmd->dry_run) { ... rmbrl_db_begin_transaction ... } of clear
ClearBegin(c, db, f) ==
    IF c.dry_run THEN rmbrl_db_begin_transaction(db, f)
    ELSE [result |-> 0, db |-> db]

\* ord: the matching rows in the order the store returns them;
\* undef: what sqlite3_column_int gives on a statement that has no row;
\* segv: the verbose print of that statement's NULL columns kills the process
rmbrl_command_clear(c, db, f, ord, undef, segv) ==
    IF ProjectTooLong(c) THEN ExecResult(1, "project_limit", db, << >>, {})
    ELSE
      LET b == ClearBegin(c, db, f)
          sel == IF c.project # NULL
                 THEN Stmt("SELECT WHERE project = ? ORDER BY created_at DESC LIMIT 1",
                           c.project, 0)
                 ELSE Stmt("SELECT ORDER BY created_at DESC LIMIT 1", NULL, 0)
          db0 == IF c.all THEN b.db ELSE Logged(b.db, sel)
          db1 == IF ~c.all /\ "step_select" \in f
                 THEN Fail(db0, "step_select") ELSE db0
          stepsel == IF "step_select" \in f THEN SQLITE_ERROR
                     ELSE IF Len(ord) = 0 THEN SQLITE_DONE ELSE SQLITE_ROW
          id == IF c.all THEN -1
                ELSE IF stepsel = SQLITE_ROW THEN ToInt32(ord[1].id)
                ELSE undef
          del == IF id = -1
                 THEN IF c.project # NULL
                      THEN Stmt("DELETE WHERE project = ? RETURNING *", c.project, 0)
                      ELSE Stmt("DELETE RETURNING *", NULL, 0)
                 ELSE Stmt("DELETE WHERE id = ? RETURNING *", NULL, id)
          gone == DeleteTargets(db1, id, c.project)
          db2 == Logged(db1, del)
          db3 == [db2 EXCEPT !.rows = @ \ gone]
      IN
      IF b.result # 0 THEN ExecResult(b.result, "begin", b.db, << >>, {})
      ELSE IF ~c.all /\ "prepare_select" \in f
      THEN ExecResult(1, "prepare", Fail(b.db, "prepare_select"), << >>, {})
      ELSE IF ~c.all /\ stepsel = SQLITE_DONE
      THEN ExecResult(1, "not_found", db1, << >>, {})
      ELSE IF ~c.all /\ stepsel # SQLITE_ROW
              /\ c.verbosity = RMBRL_VERB_VERBOSE /\ segv
      THEN ExecResult(CrashStatus, "crash", db1, << >>, {})
      ELSE IF "prepare" \in f
      THEN ExecResult(1, "prepare", Fail(db1, "prepare"), << >>, {})
      ELSE IF "step" \in f THEN ExecResult(1, "step", Fail(db2, "step"), << >>, {})
      ELSE IF c.dry_run
      THEN LET r == rmbrl_db_rollback_transaction(db3, f)
           IN ExecResult(r.result, IF r.result # 0 THEN "rollback" ELSE "none",
                         r.db, << >>, gone)
      ELSE ExecResult(0, "none", db3, << >>, gone)

---------------------------------------------------------------------------
(* main() *)

\* prev when the run before was not an add that persisted a row; tagged
\* tells whether that add was given a project
NoRow ==
    [id |-> 0, task |-> NULL, project |-> NULL, created_at |-> 0, tagged |-> FALSE]

\* the process has ended: what it leaves behind
Finish(pr, err, x, op, cl, st, lg, fl, sh, fg) ==
    /\ pc' = "exited"
    /\ args' = pr.args
    /\ cmd' = pr.cmd
    /\ ignored' = pr.ignored
    /\ oob' = pr.oob
    /\ warned' = pr.warned
    /\ perr' = err
    /\ exit' = x
    /\ opens' = op
    /\ closes' = cl
    /\ rows' = st.rows
    /\ seq' = st.seq
    /\ log' = lg
    /\ failed' = fl
    /\ shown' = sh
    /\ forgotten' = fg
    /\ pre' = rows
    /\ UNCHANGED <<clock, prev>>

\* what the environment decides in one run: the order in which the store
\* returns rows of equal created_at, the row at which a failing step of
\* peek fails, and what clear reads from a statement that has no row
NoChoice == [ord |-> << >>, e |-> 0, undef |-> 0, segv |-> FALSE]

\* a switch whose peek case runs clear
Dispatch_peek_clears(c, db, f, ch) ==
    IF c.function = RMBRL_CMD_ADD
    THEN rmbrl_command_add(c, db, f, clock)
    ELSE rmbrl_command_clear(c, db, f, ch.ord, ch.undef, ch.segv)

\* the switch on cmd.function
Dispatch(c, db, f, ch) ==
    IF c.function = RMBRL_CMD_ADD
    THEN rmbrl_command_add(c, db, f, clock)
    ELSE IF c.function = RMBRL_CMD_PEEK
    THEN rmbrl_command_peek(c, db, f, ch.ord, ch.e)
    ELSE rmbrl_command_clear(c, db, f, ch.ord, ch.undef, ch.segv)

\* main() from the parsed command pr on
RunMain(pr, f, ch) ==
    LET here == [rows |-> rows, seq |-> seq] IN
    IF pr.perr # "none"
    THEN Finish(pr, pr.perr, ParseExit(pr.perr), 0, 0, here, << >>, {}, << >>, {})
    ELSE IF "path" \in f
    THEN Finish(pr, "path", 1, 0, 0, here, << >>, {"path"}, << >>, {})
    ELSE IF "open" \in f
    THEN Finish(pr, "open", 1, 1, 0, here, << >>, {"open"}, << >>, {})
    ELSE
      LET sc == EnsureSchema(OpenSession(rows, seq), f) IN
      IF sc.result # SQLITE_OK
      THEN Finish(pr, "schema", 1, 1, 1, Persisted(sc.db), sc.db.log,
                  sc.db.failed, << >>, {})
      ELSE
        LET r == Dispatch(pr.cmd, sc.db, f, ch) IN
        \* a killed process never reaches cleanup: sqlite3_close is not called
        Finish(pr, r.err, r.result, 1, IF r.err = "crash" THEN 0 ELSE 1,
               Persisted(r.db), r.db.log, r.db.failed, r.shown, r.forgotten)

\* the sets of calls that can fail in one run of command fn.  A run makes
\* no further call that can fail after one has failed, except that clear
\* goes on after a failed step of its select: no call fails, one call
\* fails, or the select step and one later call of clear fail.
FaultSets(fn) ==
    LET relevant ==
          IF fn = RMBRL_CMD_ADD
          THEN FaultPoints \ {"prepare_select", "step_select"}
          ELSE IF fn = RMBRL_CMD_PEEK
          THEN FaultPoints \ {"prepare_select", "step_select", "begin", "rollback"}
          ELSE FaultPoints
    IN {{}} \cup {{p} : p \in relevant}
         \cup (IF fn = RMBRL_CMD_CLEAR
               THEN {{"step_select", p} : p \in {"prepare", "step", "rollback"}}
               ELSE {})

\* values sqlite3_column_int can give when the statement has no current row
UndefinedInt == {-1, 0, 1}

---------------------------------------------------------------------------
(* Argument lists of the store specification *)

w_x == <<"x">>
w_y == <<"y">>
w_empty == << >>
t_project_eq(v) == s_project \o <<"=">> \o v
t_p_eq(v) == s_p \o <<"=">> \o v

AllPart == {<< >>, <<s_all>>}
DryPart == {<< >>, <<s_dry_run>>}
ProjPart ==
    {<< >>, <<t_project_eq(w_x)>>, <<s_project, w_y>>, <<t_project_eq(w_empty)>>}
PeekProjPart ==
    ProjPart \cup {<<t_p_eq(w_empty)>>, <<s_p, w_empty>>}
TaskPart == {<< >>, <<w_x>>, <<w_y>>, <<w_empty>>}

AddArgvs ==
    {<<s_add>> \o d \o p \o t : d \in DryPart, p \in ProjPart, t \in TaskPart}
PeekArgvs ==
    {<<s_peek>> \o a \o d \o p : a \in AllPart, d \in DryPart, p \in PeekProjPart}
ClearArgvs ==
    {<<s_clear>> \o a \o d \o p : a \in AllPart, d \in DryPart, p \in ProjPart}
      \cup {<<s_clear, s_v>>, <<s_clear, s_silent, s_v, s_dry_run>>}
OtherArgvs ==
    {<< >>, <<s_help>>, <<s_h>>, <<s_version>>, <<s_V>>, <<w_x>>,
     <<<<"A","d","d">>, w_x>>}

\* argument lists at the 256-byte limits
l_256 == Fill(TaskLimit)
l_257 == Fill(TaskLimit + 1)
LongProjPart == {<< >>, <<t_project_eq(l_256)>>, <<t_project_eq(l_257)>>}
LongTaskPart == {<<l_256>>, <<l_257>>}
LongAddArgvs ==
    {<<s_add>> \o d \o p \o t :
        d \in DryPart, p \in LongProjPart, t \in LongTaskPart}
LongPeekArgvs == {<<s_peek>> \o a \o p : a \in AllPart, p \in LongProjPart}
LongClearArgvs ==
    {<<s_clear>> \o a \o d \o p : a \in AllPart, d \in DryPart, p \in LongProjPart}

\* argument lists of the parser specification: every list of at most
\* MaxArgs tokens over the project flag in its four forms, a name, a task
\* word and a verbosity flag
w_n == <<"n">>
w_t == <<"t">>
\* -pxxxxxxx=v: a token that starts with -p and has its '=' at offset 9
t_p_padded_eq(v) == s_p \o [k \in 1..(ProjectFlagLen - ShortFlagLen) |-> "x"] \o <<"=">> \o v
ParseTokens ==
    {t_project_eq(w_n), t_p_eq(w_n), t_p_padded_eq(w_t), s_project, s_p,
     w_n, w_t, s_v}
TokenLists == UNION {[1..k -> ParseTokens] : k \in 0..MaxArgs}
ParseAddArgvs == {<<s_add>> \o a : a \in TokenLists}
ParsePeekArgvs == {<<s_peek>> \o a : a \in TokenLists}
ParseClearArgvs == {<<s_clear>> \o a : a \in TokenLists}

\* argument lists of the flag specification: every list of at most MaxArgs
\* tokens over the flags in both spellings, an unknown flag and a word
s_x == <<"-","x">>
FlagTokens ==
    {s_all, s_a, s_verbose, s_v, s_silent, s_s, s_dry_run, s_n, s_x, w_t}
FlagLists == UNION {[1..k -> FlagTokens] : k \in 0..MaxArgs}
FlagAddArgvs == {<<s_add>> \o a : a \in FlagLists}
FlagPeekArgvs == {<<s_peek>> \o a : a \in FlagLists}
FlagClearArgvs == {<<s_clear>> \o a : a \in FlagLists}

AddRuns == UNION {ParseArgs(a) : a \in AddArgvs}
PeekRuns == UNION {ParseArgs(a) : a \in PeekArgvs}
ClearRuns == UNION {ParseArgs(a) : a \in ClearArgvs}
OtherRuns == UNION {ParseArgs(a) : a \in OtherArgvs}
LongAddRuns == UNION {ParseArgs(a) : a \in LongAddArgvs}
LongPeekRuns == UNION {ParseArgs(a) : a \in LongPeekArgvs}
LongClearRuns == UNION {ParseArgs(a) : a \in LongClearArgvs}
ParseAddRuns == UNION {ParseArgs(a) : a \in ParseAddArgvs}
ParsePeekRuns == UNION {ParseArgs(a) : a \in ParsePeekArgvs}
ParseClearRuns == UNION {ParseArgs(a) : a \in ParseClearArgvs}
FlagAddRuns == UNION {ParseArgs(a) : a \in FlagAddArgvs}
FlagPeekRuns == UNION {ParseArgs(a) : a \in FlagPeekArgvs}
FlagClearRuns == UNION {ParseArgs(a) : a \in FlagClearArgvs}

---------------------------------------------------------------------------
(* Actions: one run of the program each *)

Init ==
    /\ rows = {}
    /\ seq = 0
    /\ clock = 0
    /\ pc = "idle"
    /\ args = << >>
    /\ cmd = NoCmd
    /\ ignored = << >>
    /\ perr = "none"
    /\ oob = FALSE
    /\ warned = FALSE
    /\ exit = 0
    /\ opens = 0
    /\ closes = 0
    /\ log = << >>
    /\ failed = {}
    /\ shown = << >>
    /\ forgotten = {}
    /\ pre = {}
    /\ prev = NoRow

\* one run of add on one of the parsed argument lists in runs
AddOver(runs) ==
    /\ pc = "idle"
    /\ seq < MaxSeq
    /\ \E pr \in runs, f \in FaultSets(RMBRL_CMD_ADD) :
         RunMain(pr, f, NoChoice)

\* one run of peek
PeekOver(runs) ==
    /\ pc = "idle"
    /\ \E pr \in runs, f \in FaultSets(RMBRL_CMD_PEEK) :
         \E ord \in IF pr.perr = "none"
                    THEN Orders(Matching(rows, pr.cmd.project)) ELSE {<< >>} :
           \E e \in IF "step" \in f THEN 1..(Len(ord) + 1) ELSE {0} :
             RunMain(pr, f, [NoChoice EXCEPT !.ord = ord, !.e = e])

\* one run of clear
ClearOver(runs) ==
    /\ pc = "idle"
    /\ \E pr \in runs, f \in FaultSets(RMBRL_CMD_CLEAR) :
         \E ord \in IF pr.perr = "none" /\ ~pr.cmd.all
                    THEN Orders(Matching(rows, pr.cmd.project)) ELSE {<< >>} :
           \E undef \in IF "step_select" \in f THEN UndefinedInt ELSE {0} :
             \E segv \in IF "step_select" \in f THEN BOOLEAN ELSE {FALSE} :
               RunMain(pr, f, [ord |-> ord, e |-> 0, undef |-> undef, segv |-> segv])

\* rmbrl add ...
Add == AddOver(AddRuns)

\* rmbrl peek ...
Peek == PeekOver(PeekRuns)

\* rmbrl clear ...
Clear == ClearOver(ClearRuns)

\* the same with tasks and projects of 256 and 257 bytes
AddLong == AddOver(LongAddRuns)
PeekLong == PeekOver(LongPeekRuns)
ClearLong == ClearOver(LongClearRuns)

\* rmbrl with no command: no arguments, help, version, unknown command
NoCommand ==
    /\ pc = "idle"
    /\ \E pr \in OtherRuns :
         RunMain(pr, {}, NoChoice)

\* the runs of the parser specification: no call of the store fails, and
\* add runs on the empty store, so the store holds at most one row
AddParsed ==
    /\ pc = "idle"
    /\ rows = {}
    /\ seq < MaxSeq
    /\ \E pr \in ParseAddRuns : RunMain(pr, {}, NoChoice)

PeekParsed ==
    /\ pc = "idle"
    /\ \E pr \in ParsePeekRuns :
         \E ord \in IF pr.perr = "none"
                    THEN Orders(Matching(rows, pr.cmd.project)) ELSE {<< >>} :
           RunMain(pr, {}, [NoChoice EXCEPT !.ord = ord])

ClearParsed ==
    /\ pc = "idle"
    /\ \E pr \in ParseClearRuns :
         \E ord \in IF pr.perr = "none" /\ ~pr.cmd.all
                    THEN Orders(Matching(rows, pr.cmd.project)) ELSE {<< >>} :
           RunMain(pr, {}, [NoChoice EXCEPT !.ord = ord])

\* the runs of the flag specification, as those of the parser specification
AddFlagged ==
    /\ pc = "idle"
    /\ rows = {}
    /\ seq < MaxSeq
    /\ \E pr \in FlagAddRuns : RunMain(pr, {}, NoChoice)

PeekFlagged ==
    /\ pc = "idle"
    /\ \E pr \in FlagPeekRuns :
         \E ord \in IF pr.perr = "none"
                    THEN Orders(Matching(rows, pr.cmd.project)) ELSE {<< >>} :
           RunMain(pr, {}, [NoChoice EXCEPT !.ord = ord])

ClearFlagged ==
    /\ pc = "idle"
    /\ \E pr \in FlagClearRuns :
         \E ord \in IF pr.perr = "none" /\ ~pr.cmd.all
                    THEN Orders(Matching(rows, pr.cmd.project)) ELSE {<< >>} :
           RunMain(pr, {}, [NoChoice EXCEPT !.ord = ord])

\* the row a run that was a successful add without dry-run has persisted
Added ==
    IF /\ cmd.function = RMBRL_CMD_ADD
       /\ perr = "none"
       /\ exit = 0
       /\ ~cmd.dry_run
       /\ rows \ pre # {}
    THEN LET r == CHOOSE m \in rows \ pre : TRUE
         IN [id |-> r.id, task |-> r.task, project |-> r.project,
             created_at |-> r.created_at, tagged |-> cmd.project # NULL]
    ELSE NoRow

\* the process is gone; the next run starts from the file alone
Exit ==
    /\ pc = "exited"
    /\ pc' = "idle"
    /\ prev' = Added
    /\ args' = << >>
    /\ cmd' = NoCmd
    /\ ignored' = << >>
    /\ perr' = "none"
    /\ oob' = FALSE
    /\ warned' = FALSE
    /\ exit' = 0
    /\ opens' = 0
    /\ closes' = 0
    /\ log' = << >>
    /\ failed' = {}
    /\ shown' = << >>
    /\ forgotten' = {}
    /\ pre' = {}
    /\ UNCHANGED <<rows, seq, clock>>

\* a second passes on the store's clock
Tick ==
    /\ pc = "idle"
    /\ clock < MaxTime
    /\ clock' = clock + 1
    /\ UNCHANGED <<rows, seq, pc, args, cmd, ignored, perr, oob, warned, exit,
                   opens, closes, log, failed, shown, forgotten, pre, prev>>

Next == Add \/ Peek \/ Clear \/ NoCommand \/ Exit \/ Tick

Spec == Init /\ [][Next]_vars

\* the runs at the length limits
NextLimit == AddLong \/ PeekLong \/ ClearLong \/ Exit \/ Tick

LimitSpec == Init /\ [][NextLimit]_vars

\* the runs over the argument lists of the parser specification
NextParse == AddParsed \/ PeekParsed \/ ClearParsed \/ Exit

ParseSpec == Init /\ [][NextParse]_vars

\* the runs over the argument lists of the flag specification
NextFlag == AddFlagged \/ PeekFlagged \/ ClearFlagged \/ Exit

FlagSpec == Init /\ [][NextFlag]_vars

---------------------------------------------------------------------------
(* Properties *)

Exited(fn) == pc = "exited" /\ cmd.function = fn

\* the run reached its executor and the executor returned 0
Succeeded(fn) == Exited(fn) /\ perr = "none" /\ exit = 0

SqlOf(i) == log[i].sql
Issued(sql) == \E i \in 1..Len(log) : SqlOf(i) = sql

SelectSql ==
    {"SELECT WHERE project = ? ORDER BY created_at DESC",
     "SELECT ORDER BY created_at DESC",
     "SELECT WHERE project = ? ORDER BY created_at DESC LIMIT 1",
     "SELECT ORDER BY created_at DESC LIMIT 1"}
DeleteSql ==
    {"DELETE WHERE project = ? RETURNING *", "DELETE RETURNING *",
     "DELETE WHERE id = ? RETURNING *"}

\* C1: after a successful add without dry-run, a peek with no project filter
\* and without --all that follows at once shows one row, and its task is
\* the task just added, whatever rows the store already held.
C1_AddThenPeekShowsTask ==
    (Succeeded(RMBRL_CMD_PEEK) /\ cmd.project = NULL /\ ~cmd.all /\ prev # NoRow)
    => (Len(shown) = 1 /\ shown[1].task = prev.task)

\* C2: an add with dry-run set leaves the persisted rows as they were before
\* the run, whether the insert and the rollback succeed, the insert fails
\* after BEGIN, or BEGIN fails.
C2_DryRunAddKeepsRows ==
    (Exited(RMBRL_CMD_ADD) /\ cmd.dry_run) => rows = pre

\* a dry-run add whose insert and rollback both went through
C2_Witness ==
    /\ Succeeded(RMBRL_CMD_ADD)
    /\ cmd.dry_run
    /\ Len(log) = 4
    /\ SqlOf(2) = "BEGIN" /\ SqlOf(3) = "INSERT" /\ SqlOf(4) = "ROLLBACK"
    /\ rows = pre

\* C3: a clear with dry-run set issues BEGIN before its select and delete,
\* issues ROLLBACK only as its last statement and after the delete, ends
\* with ROLLBACK when it succeeds, and leaves the persisted rows as they
\* were, also when the select finds no row or a statement fails.
C3_DryRunClearKeepsRows ==
    (Exited(RMBRL_CMD_CLEAR) /\ cmd.dry_run) =>
      /\ rows = pre
      /\ \A i \in 1..Len(log) :
           SqlOf(i) \in SelectSql \cup DeleteSql =>
             \E j \in 1..(i - 1) : SqlOf(j) = "BEGIN"
      /\ \A i \in 1..Len(log) :
           SqlOf(i) = "ROLLBACK" =>
             /\ i = Len(log)
             /\ \E j \in 1..(i - 1) : SqlOf(j) \in DeleteSql
      /\ (perr = "none" /\ exit = 0) =>
           (Len(log) > 0 /\ SqlOf(Len(log)) = "ROLLBACK")

\* a dry-run clear that selected a row, deleted it and rolled back
C3_Witness ==
    /\ Succeeded(RMBRL_CMD_CLEAR)
    /\ cmd.dry_run
    /\ ~cmd.all
    /\ forgotten # {}
    /\ rows = pre
    /\ SqlOf(Len(log)) = "ROLLBACK"

\* C4: a successful clear without dry-run and without --all, on a store
\* with a row matching the project filter, removes exactly one row, one of
\* greatest created_at among the matching rows, and no other row.
C4_ClearRemovesMostRecent ==
    (Succeeded(RMBRL_CMD_CLEAR) /\ ~cmd.dry_run /\ ~cmd.all
       /\ Matching(pre, cmd.project) # {})
    => \E r \in Matching(pre, cmd.project) :
         /\ rows = pre \ {r}
         /\ \A m \in Matching(pre, cmd.project) : m.created_at <= r.created_at

\* C5: a successful clear --all with a project filter P, without dry-run,
\* removes the rows whose project is P and leaves every other row.
C5_ClearAllProject ==
    (Succeeded(RMBRL_CMD_CLEAR) /\ ~cmd.dry_run /\ cmd.all /\ cmd.project # NULL)
    => /\ rows = {r \in pre : r.project # cmd.project}
       /\ forgotten = {r \in pre : r.project = cmd.project}

\* clear --all --project removed a row and left a row of another project
C5_Witness ==
    /\ Succeeded(RMBRL_CMD_CLEAR)
    /\ ~cmd.dry_run /\ cmd.all /\ cmd.project # NULL
    /\ pre \ rows # {}
    /\ \E r \in rows : r.project # cmd.project

\* C6: after a successful add with project P (a name) and without dry-run,
\* a peek filtered on P shows the added task; a peek filtered on another
\* project Q does not show the added row, and shows nothing when no row
\* has project Q.
C6_ProjectRoundTrip ==
    (Succeeded(RMBRL_CMD_PEEK) /\ cmd.project # NULL /\ prev # NoRow
       /\ prev.tagged /\ Len(prev.project) > 0)
    => IF cmd.project = prev.project
       THEN \E i \in 1..Len(shown) : shown[i].task = prev.task
       ELSE /\ \A i \in 1..Len(shown) : shown[i].id # prev.id
            /\ (Matching(rows, cmd.project) = {} => shown = << >>)

\* C7: an add whose task, or whose project when given, is longer than 256
\* bytes exits 1, persists nothing and issues neither BEGIN nor INSERT; the
\* length check rejects nothing of 256 bytes or less.
C7_AddLengthLimit ==
    (Exited(RMBRL_CMD_ADD) /\ perr \notin {"missing_project", "missing_task"}) =>
      LET long == \/ Len(cmd.task) > 256
                  \/ (cmd.project # NULL /\ Len(cmd.project) > 256)
      IN /\ long => /\ exit = 1
                    /\ rows = pre
                    /\ ~Issued("BEGIN")
                    /\ ~Issued("INSERT")
         /\ perr \in {"task_limit", "project_limit"} => long

\* a dry-run add of a 257-byte task was turned down before BEGIN
C7_Witness ==
    /\ Exited(RMBRL_CMD_ADD)
    /\ cmd.dry_run
    /\ Len(cmd.task) = 257
    /\ perr = "task_limit"
    /\ exit = 1
    /\ opens = 1
    /\ ~Issued("BEGIN")

\* C8: a run that called sqlite3_open has called sqlite3_close exactly once
\* when it exits.
C8_ClosedExactlyOnce ==
    (pc = "exited" /\ opens > 0) => closes = 1

\* C9: every persisted row has a non-empty task.
C9_TaskNeverEmpty ==
    \A r \in rows : Len(r.task) > 0

\* C10: a peek that filters on project filters on a non-empty name.
C10_PeekNeverFiltersOnEmpty ==
    Exited(RMBRL_CMD_PEEK) =>
      \A i \in 1..Len(log) :
        SqlOf(i) = "SELECT WHERE project = ? ORDER BY created_at DESC" =>
          Len(log[i].project) > 0

---------------------------------------------------------------------------
(* Properties of the scan of the arguments *)

\* the early returns main() takes before it resolves the database path
ParseErrors ==
    {"no_args", "help", "version", "unknown_command", "missing_project",
     "missing_task"}

\* the run got past the command word: the scan of the flags took place
Scanned ==
    /\ pc = "exited"
    /\ Len(args) >= 1
    /\ CommandFunction(args[1]) # RMBRL_CMD_UNKNOWN

\* the four ways of writing the project flag with value v
ProjectForms(v) ==
    {<<t_project_eq(v)>>, <<t_p_eq(v)>>, <<s_project, v>>, <<s_p, v>>}

\* the token is handled by the project branch of the scan
IsProjectToken(tok) == strncmp0(tok, s_p) \/ strncmp0(tok, s_project)

\* the first token of ts that does not start with '-', NULL if there is none
FirstWord(ts) ==
    IF \E k \in 1..Len(ts) : NotDashed(ts[k])
    THEN ts[CHOOSE k \in 1..Len(ts) :
              NotDashed(ts[k]) /\ \A j \in 1..(k - 1) : ~NotDashed(ts[j])]
    ELSE NULL

\* C11: when the argument list holds the project flag with value NAME in
\* one of its four forms and no other project flag, writing the flag in any
\* of the four forms gives the same Command and the same outcome of the
\* scan; the project is NAME, the task of add is the first word among the
\* remaining tokens (never NAME's token), and a successful add without
\* dry-run stores one row with that task and project NAME.
C11_ProjectFormsAgree ==
    Scanned =>
      \A i \in 2..Len(args) : \A fm \in ProjectForms(w_n) :
        LET before == SubSeq(args, 1, i - 1)
            after == SubSeq(args, i + Len(fm), Len(args))
            rest == SubSeq(before, 2, Len(before)) \o after
        IN (/\ i + Len(fm) - 1 <= Len(args)
            /\ SubSeq(args, i, i + Len(fm) - 1) = fm
            /\ \A k \in 1..Len(rest) : ~IsProjectToken(rest[k]))
           => /\ \A alt \in ProjectForms(w_n) :
                   \A r \in ParseArgs(before \o alt \o after) :
                     /\ r.cmd = cmd
                     /\ r.perr = (IF perr \in ParseErrors THEN perr ELSE "none")
              /\ cmd.project = w_n
              /\ cmd.function = RMBRL_CMD_ADD => cmd.task = FirstWord(rest)
              /\ (Succeeded(RMBRL_CMD_ADD) /\ ~cmd.dry_run) =>
                   \E m \in rows : /\ rows \ pre = {m}
                                    /\ m.project = w_n
                                    /\ m.task = FirstWord(rest)

\* C12: when the argument list holds the project flag in next-token form
\* (--project or -p alone) as its last token or followed by a token that
\* starts with '-', the run ends with the missing-project-name error and
\* exit code 1 and has not opened the store, for add, peek and clear.
C12_MissingProjectName ==
    (/\ Scanned
     /\ \E i \in 2..Len(args) :
          /\ args[i] \in {s_project, s_p}
          /\ (i = Len(args) \/ ~NotDashed(args[i + 1])))
    => (perr = "missing_project" /\ exit = 1 /\ opens = 0)

---------------------------------------------------------------------------
(* Properties of exit codes, peek and clear *)

\* the run called its executor: the store was opened and the schema is there
ReachedExecutor ==
    pc = "exited" /\ perr \notin ParseErrors \cup {"path", "open", "schema"}

\* the rows persisted before the run that the run's project filter selects
Selected ==
    {m \in pre : cmd.project = NULL \/ m.project = cmd.project}

\* C13: main() returns 0 or 1, and 0 exactly when it displayed help or
\* version or when the command ran with no error and no failed call.
C13_ExitCodes ==
    pc = "exited" =>
      /\ exit \in {0, 1}
      /\ exit = 0 <=> \/ perr \in {"help", "version"}
                      \/ (perr = "none" /\ failed = {})

\* C14: a peek that meets no failing call on a store with no row matching
\* its filter shows no row and exits 0, with or without --all.
C14_PeekEmptyIsNotAnError ==
    (Exited(RMBRL_CMD_PEEK) /\ perr \notin ParseErrors /\ failed = {}
       /\ Selected = {})
    => (exit = 0 /\ perr = "none" /\ shown = << >>)

\* peek --all with a project no row has, on a store that holds a row
C14_Witness ==
    /\ Exited(RMBRL_CMD_PEEK)
    /\ cmd.all /\ cmd.project # NULL
    /\ pre # {} /\ Selected = {}
    /\ opens = 1 /\ exit = 0 /\ shown = << >>

\* C15: a peek leaves the persisted rows as they were and issues neither
\* BEGIN nor ROLLBACK, nor an insert or a delete, whatever flags it is
\* given.
C15_PeekChangesNothing ==
    Exited(RMBRL_CMD_PEEK) =>
      /\ rows = pre
      /\ \A i \in 1..Len(log) :
           SqlOf(i) \notin {"BEGIN", "ROLLBACK", "INSERT"} \cup DeleteSql

\* peek --all --dry-run with a project filter that showed a row
C15_Witness ==
    /\ Succeeded(RMBRL_CMD_PEEK)
    /\ cmd.all /\ cmd.dry_run /\ cmd.project # NULL
    /\ Len(shown) >= 1
    /\ rows = pre

\* C16: a clear in which a call of the store failed exits 1, and when the
\* step of the select failed no DELETE is issued.
C16_ClearFailureIsFatal ==
    (Exited(RMBRL_CMD_CLEAR) /\ perr \notin ParseErrors /\ failed # {})
    => /\ exit = 1
       /\ "step_select" \in failed =>
            \A i \in 1..Len(log) : SqlOf(i) \notin DeleteSql

\* C17: BEGIN is issued at most once; a run that reached its executor
\* issues it exactly when dry-run is set, the command is add or clear and
\* the length checks passed, and then as the executor's first statement; no
\* other run issues it; ROLLBACK comes only after BEGIN and after an insert
\* or delete whose step did not fail; COMMIT is never issued.
C17_TransactionProtocol ==
    pc = "exited" =>
      LET B == {i \in 1..Len(log) : SqlOf(i) = "BEGIN"}
          R == {i \in 1..Len(log) : SqlOf(i) = "ROLLBACK"}
      IN /\ Cardinality(B) <= 1
         /\ ReachedExecutor =>
              (B # {} <=> /\ cmd.dry_run
                          /\ cmd.function \in {RMBRL_CMD_ADD, RMBRL_CMD_CLEAR}
                          /\ perr \notin {"task_limit", "project_limit"})
         /\ ~ReachedExecutor => B = {}
         /\ \A i \in B : \A j \in 1..(i - 1) : SqlOf(j) = "CREATE TABLE"
         /\ \A i \in R :
              /\ \E j \in B : j < i
              /\ \E j \in 1..(i - 1) : SqlOf(j) \in DeleteSql \cup {"INSERT"}
              /\ "step" \notin failed
         /\ ~Issued("COMMIT")

\* a dry-run clear --all: BEGIN, the delete, ROLLBACK
C17_Witness ==
    /\ Succeeded(RMBRL_CMD_CLEAR)
    /\ cmd.all /\ cmd.dry_run
    /\ forgotten # {}
    /\ Len(log) = 4
    /\ SqlOf(2) = "BEGIN" /\ SqlOf(3) \in DeleteSql /\ SqlOf(4) = "ROLLBACK"

\* C18: a clear without --all that reached its executor on a store with no
\* row matching its filter exits 1, issues no DELETE and leaves the rows
\* as they were.
C18_ClearNothingToForget ==
    (Exited(RMBRL_CMD_CLEAR) /\ ReachedExecutor /\ ~cmd.all /\ Selected = {})
    => /\ exit = 1
       /\ rows = pre
       /\ \A i \in 1..Len(log) : SqlOf(i) \notin DeleteSql

\* C19: a successful peek without --all shows one row when a row matches
\* the filter and none otherwise, and the row shown has the greatest
\* created_at of the matching rows; a successful peek --all shows each
\* matching row once, in non-increasing order of created_at.
C19_PeekOrder ==
    Succeeded(RMBRL_CMD_PEEK) =>
      IF ~cmd.all
      THEN /\ Len(shown) = (IF Selected = {} THEN 0 ELSE 1)
           /\ \A i \in 1..Len(shown) :
                /\ shown[i] \in Selected
                /\ \A m \in Selected : m.created_at <= shown[i].created_at
      ELSE /\ Len(shown) = Cardinality(Selected)
           /\ {shown[i] : i \in 1..Len(shown)} = Selected
           /\ \A i, j \in 1..Len(shown) :
                i < j => shown[i].created_at >= shown[j].created_at

\* a peek without --all on two matching rows of different created_at
C19_Witness ==
    /\ Succeeded(RMBRL_CMD_PEEK)
    /\ ~cmd.all
    /\ Len(shown) = 1
    /\ \E m \in Selected : m.created_at < shown[1].created_at

\* C20: a successful add without dry-run adds one row to the rows that were
\* there, with the parsed task and the parsed project, the empty string
\* when no project was given, and changes no other row.
C20_AddInsertsOneRow ==
    (Succeeded(RMBRL_CMD_ADD) /\ ~cmd.dry_run) =>
      \E m \in rows :
        /\ m \notin pre
        /\ rows = pre \cup {m}
        /\ m.task = cmd.task
        /\ m.project = (IF cmd.project = NULL THEN << >> ELSE cmd.project)

\* an add without a project onto a store that already holds a row
C20_Witness ==
    /\ Succeeded(RMBRL_CMD_ADD)
    /\ ~cmd.dry_run
    /\ cmd.project = NULL
    /\ pre # {}
    /\ \E m \in rows \ pre : m.project = << >> /\ m.task = cmd.task

---------------------------------------------------------------------------
(* Properties of the stored rows, the flags and the delete of clear *)

\* C21: every persisted row has a task that is a string of at most 256
\* bytes and a project that is a string (never NULL) of at most 256 bytes.
C21_RowLengths ==
    \A r \in rows :
      /\ r.task # NULL /\ Len(r.task) <= 256
      /\ r.project # NULL /\ Len(r.project) <= 256

\* the store holds a row at both limits, and an add with a project of 257
\* bytes has just been turned down
C21_Witness ==
    /\ \E r \in rows : Len(r.task) = 256 /\ Len(r.project) = 256
    /\ Exited(RMBRL_CMD_ADD)
    /\ perr = "project_limit"
    /\ Len(cmd.project) = 257
    /\ rows = pre

\* the tokens after the command word
Flags == SubSeq(args, 2, Len(args))

\* how many tokens of ts are in S
CountIn(ts, S) == Cardinality({k \in 1..Len(ts) : ts[k] \in S})

AllTokens == {s_all, s_a}
VerboseTokens == {s_verbose, s_v}
SilentTokens == {s_silent, s_s}
DryRunTokens == {s_dry_run, s_n}

\* the argument list holds no project flag, so the scan visits every token
NoProjectFlag == \A k \in 1..Len(Flags) : ~IsProjectToken(Flags[k])

\* C22: under add, --all and -a never set all and each of them is put on
\* the ignored list; under peek and clear, all is set exactly when one of
\* them is given and none of them is put on the ignored list.
C22_AllFlagPerCommand ==
    (Scanned /\ NoProjectFlag) =>
      IF cmd.function = RMBRL_CMD_ADD
      THEN /\ ~cmd.all
           /\ CountIn(ignored, AllTokens) = CountIn(Flags, AllTokens)
      ELSE /\ cmd.all <=> CountIn(Flags, AllTokens) > 0
           /\ CountIn(ignored, AllTokens) = 0

\* a successful add that was given -a and --all and ignored both
C22_Witness ==
    /\ Succeeded(RMBRL_CMD_ADD)
    /\ ~cmd.all
    /\ CountIn(Flags, {s_a}) = 1 /\ CountIn(Flags, {s_all}) = 1
    /\ CountIn(ignored, AllTokens) = 2
    /\ warned

\* C23: the parsed verbosity is that of the last verbosity flag of the
\* argument list: verbose for --verbose or -v, silent for --silent or -s,
\* normal when there is none; dry_run is set exactly when --dry-run or -n
\* is among the tokens.
C23_LastVerbosityWins ==
    (Scanned /\ NoProjectFlag) =>
      LET V == {k \in 1..Len(Flags) : Flags[k] \in VerboseTokens \cup SilentTokens}
          last == CHOOSE k \in V : \A j \in V : j <= k
      IN /\ cmd.verbosity =
              (IF V = {} THEN RMBRL_VERB_NORMAL
               ELSE IF Flags[last] \in VerboseTokens THEN RMBRL_VERB_VERBOSE
               ELSE RMBRL_VERB_SILENT)
         /\ cmd.dry_run <=> CountIn(Flags, DryRunTokens) > 0

\* --verbose, then -s, then -n: silent, with dry_run set
C23_Witness ==
    /\ Exited(RMBRL_CMD_PEEK)
    /\ Flags = <<s_verbose, s_s, s_n>>
    /\ cmd.verbosity = RMBRL_VERB_SILENT
    /\ cmd.dry_run
    /\ exit = 0

\* the token is one of the flags the scan of command fn recognises
KnownFlag(tok, fn) ==
    \/ tok \in DryRunTokens \cup VerboseTokens \cup SilentTokens
    \/ (tok \in AllTokens /\ fn # RMBRL_CMD_ADD)

\* the project token carries its value behind an '=' the scan finds
Attached(tok) ==
    \/ (Len(tok) > ShortFlagLen /\ tok[ShortFlagLen + 1] = "=")
    \/ (Len(tok) > ProjectFlagLen /\ tok[ProjectFlagLen + 1] = "=")

\* the tokens of ts from index k on that role puts on the ignored list
RECURSIVE IgnoredBy(_, _, _)
IgnoredBy(ts, role, k) ==
    IF k > Len(ts) THEN << >>
    ELSE (IF role[k] = "ignored" THEN <<ts[k]>> ELSE << >>)
           \o IgnoredBy(ts, role, k + 1)

\* role gives each token one consumer, by the rules of the scan.  A token
\* is a project value only behind a project flag without attached value
\* and only if it does not start with '-'; it is one whenever that flag
\* is long enough for the scan's look at offset 9 to stay inside it.
Consumes(ts, fn, role) ==
    \A k \in 1..Len(ts) :
      LET afterFlag == k > 1 /\ role[k - 1] = "pflag" /\ ~Attached(ts[k - 1])
      IN /\ role[k] = "value" => (afterFlag /\ NotDashed(ts[k]))
         /\ (afterFlag /\ Len(ts[k - 1]) >= ProjectFlagLen) => role[k] = "value"
         /\ role[k] # "value" =>
              role[k] = (IF KnownFlag(ts[k], fn) THEN "flag"
                         ELSE IF IsProjectToken(ts[k]) THEN "pflag"
                         ELSE IF /\ fn = RMBRL_CMD_ADD
                                 /\ NotDashed(ts[k])
                                 /\ \A j \in 1..(k - 1) : role[j] # "task"
                         THEN "task"
                         ELSE "ignored")

\* C24: when the scan has run to the end, each token has exactly one
\* consumer (a recognised flag, the project flag, a project value, the
\* task, the ignored list); the task of add is the first token that is no
\* flag, no project value and does not start with '-', NULL if there is
\* none; every later such token is on the ignored list, in order.
C24_TaskIsFirstWord ==
    (Scanned /\ perr # "missing_project") =>
      \E role \in [1..Len(Flags) -> {"flag", "pflag", "value", "task", "ignored"}] :
        /\ Consumes(Flags, cmd.function, role)
        /\ cmd.task = (IF \E k \in 1..Len(Flags) : role[k] = "task"
                       THEN Flags[CHOOSE k \in 1..Len(Flags) : role[k] = "task"]
                       ELSE NULL)
        /\ ignored = IgnoredBy(Flags, role, 1)

\* add --project n t: n is the project value, t the task
C24_Witness ==
    /\ Succeeded(RMBRL_CMD_ADD)
    /\ Flags = <<s_project, w_n, w_t>>
    /\ cmd.project = w_n
    /\ cmd.task = w_t
    /\ ignored = << >>

\* the tokens of ts from index k on that the scan of fn puts on the
\* ignored list when ts holds no project flag; seen: the task is set
RECURSIVE Unclaimed(_, _, _, _)
Unclaimed(ts, fn, k, seen) ==
    IF k > Len(ts) THEN << >>
    ELSE IF KnownFlag(ts[k], fn) THEN Unclaimed(ts, fn, k + 1, seen)
    ELSE IF fn = RMBRL_CMD_ADD /\ ~seen /\ NotDashed(ts[k])
    THEN Unclaimed(ts, fn, k + 1, TRUE)
    ELSE <<ts[k]>> \o Unclaimed(ts, fn, k + 1, seen)

\* C25: the warning is printed exactly when, after the scan, the verbosity
\* is not silent and the ignored list is not empty; the list holds the
\* ignored tokens in argument order; a --silent behind them suppresses it.
C25_IgnoredWarning ==
    (Scanned /\ NoProjectFlag) =>
      /\ ignored = Unclaimed(Flags, cmd.function, 1, FALSE)
      /\ warned <=> (cmd.verbosity # RMBRL_VERB_SILENT /\ Len(ignored) > 0)

\* peek -x t --silent: two tokens ignored in order, no warning
C25_Witness ==
    /\ Exited(RMBRL_CMD_PEEK)
    /\ Flags = <<s_x, w_t, s_silent>>
    /\ ignored = <<s_x, w_t>>
    /\ ~warned
    /\ exit = 0

\* C26: an add whose tokens hold no word, and any add whose scan ends with
\* the task unset, ends with the missing-task error and exit code 1, has
\* not opened the store and leaves the rows as they were; peek and clear
\* never end with the missing-task error.
C26_MissingTask ==
    Scanned =>
      /\ (/\ cmd.function = RMBRL_CMD_ADD
          /\ perr # "missing_project"
          /\ \/ cmd.task = NULL
             \/ (NoProjectFlag /\ \A k \in 1..Len(Flags) : ~NotDashed(Flags[k])))
         => (perr = "missing_task" /\ exit = 1 /\ opens = 0 /\ rows = pre)
      /\ cmd.function # RMBRL_CMD_ADD => perr # "missing_task"

\* add -n -x on a store that holds a row: missing task, store untouched
C26_Witness ==
    /\ Exited(RMBRL_CMD_ADD)
    /\ Flags = <<s_n, s_x>>
    /\ perr = "missing_task"
    /\ exit = 1
    /\ opens = 0
    /\ rows = pre

\* the offset behind the characters of the flag that tok is matched as
FlagOffset(tok) == IF strncmp0(tok, s_p) THEN ShortFlagLen ELSE ProjectFlagLen

\* C27: when the first token is the only project token, its value is the
\* rest of the token exactly when a '=' stands at the offset behind the
\* matched flag (2 for -p, 9 for --project); otherwise the next token is
\* the value if there is one that does not start with '-', and the run
\* ends with the missing-project error if there is none.
C27_AttachedValueOffset ==
    (/\ Scanned
     /\ Len(Flags) >= 1
     /\ IsProjectToken(Flags[1])
     /\ \A k \in 2..Len(Flags) : ~IsProjectToken(Flags[k])) =>
      LET tok == Flags[1]
          off == FlagOffset(tok)
      IN IF Len(tok) > off /\ tok[off + 1] = "="
         THEN cmd.project = Suffix(tok, off + 1) /\ perr # "missing_project"
         ELSE IF Len(Flags) >= 2 /\ NotDashed(Flags[2])
         THEN cmd.project = Flags[2] /\ perr # "missing_project"
         ELSE perr = "missing_project"

\* C28: the scan reads no byte of a token behind its terminator.
C28_NoReadPastTerminator == ~oob

\* the DELETE statements that are not restricted to one identifier
WideDeleteSql == {"DELETE WHERE project = ? RETURNING *", "DELETE RETURNING *"}

\* C29: a clear issues a DELETE that is not restricted to one identifier
\* only when all is set, and a clear without all removes at most one row.
C29_WideDeleteOnlyForAll ==
    (Exited(RMBRL_CMD_CLEAR) /\ ReachedExecutor) =>
      /\ (\E i \in 1..Len(log) : SqlOf(i) \in WideDeleteSql) => cmd.all
      /\ ~cmd.all => Cardinality(pre \ rows) <= 1

\* C30: when no row matches the filter, clear --all whose calls all succeed
\* ends with exit code 0 and removes nothing, and clear without --all ends
\* with exit code 1.
C30_ClearAllOnNothing ==
    (Exited(RMBRL_CMD_CLEAR) /\ ReachedExecutor /\ Selected = {}) =>
      IF cmd.all
      THEN failed = {} => (exit = 0 /\ rows = pre /\ forgotten = {})
      ELSE exit = 1

====
